---- MODULE Spec2Model ----
(***************************************************************************)
(* Model of pytorch/bts_dataloader.py: DataLoadPreprocess.__getitem__ and  *)
(* its helpers (random_crop, train_preprocess, augment_image, rotateImage) *)
(* and ToTensor.__call__.                                                  *)
(*                                                                         *)
(* Arrays and PIL images are modelled by where their pixels come from: an  *)
(* array is a record                                                       *)
(*   rows, cols : for every row (column) of the array, the 0-based row     *)
(*                (column) of the decoded file shown there, or PAD for the *)
(*                zero fill PIL's crop puts outside the source.  Crops,    *)
(*                slices and flips keep such a map of the form             *)
(*                  pre times PAD, then lo, lo+step, .. (n indices,        *)
(*                  step 1 or -1), then post times PAD                     *)
(*                and it is stored as the record [pre, lo, n, step, post]; *)
(*                At(x, p) is the entry at the 0-based position p;         *)
(*   chans      : the trailing channel axis, <<>> for a 2-D array;         *)
(*   layout     : "HWC" as decoded, "CHW" after ToTensor's transpose;      *)
(*   src        : the file that was decoded;                               *)
(*   rot        : the rotation applied by rotateImage, if any;             *)
(*   vals       : the arithmetic applied to every element, in order.       *)
(* Two arrays are equal exactly when they show the same source pixels at   *)
(* the same positions with the same arithmetic applied.                    *)
(*                                                                         *)
(* A draw of random.random() is modelled in tenths (Unit).                 *)
(***************************************************************************)
EXTENDS Integers, Sequences, FiniteSets, TLC

VARIABLES filenames, args, mode, transform, rngPy, rngNp, last

vars == <<filenames, args, mode, transform, rngPy, rngNp, last>>

(***************************************************************************)
(* Bounds of the model.                                                    *)
(***************************************************************************)
\* the random sources are counted modulo RngPeriod
RngPeriod == 2

(***************************************************************************)
(* Program constants.                                                      *)
(***************************************************************************)
KbHeight == 352
KbWidth == 1216
NyuLeft == 43
NyuTop == 45
NyuRight == 608
NyuBottom == 472
PAD == -1

Min(a, b) == IF a <= b THEN a ELSE b
Max(a, b) == IF a >= b THEN a ELSE b

\* an index map of len entries, all PAD
AllPad(len) == [pre |-> len, lo |-> 0, n |-> 0, step |-> 1, post |-> 0]

\* the index map a, a + 1, .., a + n - 1
Range(a, n) ==
    IF n = 0 THEN AllPad(0)
    ELSE [pre |-> 0, lo |-> a, n |-> n, step |-> 1, post |-> 0]

AxisLen(x) == x.pre + x.n + x.post

\* the entry of index map x at the 0-based position p
At(x, p) ==
    IF p < x.pre \/ p >= x.pre + x.n THEN PAD ELSE x.lo + x.step * (p - x.pre)

\* the entries of x at the positions a, .., b - 1 (a <= b); a position
\* outside x holds PAD
Window(x, a, b) ==
    LET first == Max(a, x.pre)
        end   == Min(b, x.pre + x.n)
    IN  IF end <= first THEN AllPad(b - a)
        ELSE [pre |-> first - a, lo |-> x.lo + x.step * (first - x.pre),
              n |-> end - first, step |-> IF end - first = 1 THEN 1 ELSE x.step,
              post |-> b - end]

\* Python's int(n / 2): true division, then truncation toward zero
IntHalf(n) == IF n >= 0 THEN n \div 2 ELSE -((-n) \div 2)

\* seq[start:stop] with Python's treatment of negative and oversized bounds
PySlice(seq, start, stop) ==
    LET n  == AxisLen(seq)
        lo == IF start < 0 THEN Max(start + n, 0) ELSE Min(start, n)
        hi == IF stop < 0 THEN Max(stop + n, 0) ELSE Min(stop, n)
    IN  IF hi <= lo THEN AllPad(0) ELSE Window(seq, lo, hi)

\* seq[::-1]
Reverse(seq) ==
    IF seq.n = 0 THEN seq
    ELSE [pre |-> seq.post, lo |-> seq.lo + seq.step * (seq.n - 1), n |-> seq.n,
          step |-> IF seq.n = 1 THEN 1 ELSE -seq.step, post |-> seq.pre]

Height(a) == AxisLen(a.rows)
Width(a) == AxisLen(a.cols)
\* ndarray.shape of an HWC array
Shape(a) == <<Height(a), Width(a)>> \o a.chans

(***************************************************************************)
(* The files on disk and the manifests.                                    *)
(***************************************************************************)
\* Image.open(path): the decoded size and mode of each file that exists.
\* "k*" are KITTI-like files around the 352 x 1216 geometry, "n*" NYU files.
Disk ==
    [p \in { <<"data", "k_big.png">>, <<"gt", "k_big_d.png">>,
             <<"data", "k_small.png">>, <<"gt", "k_small_d.png">>,
             <<"gt", "k_off_d.png">>, <<"gt", "k_offw_d.png">>,
             <<"data", "n_1.jpg">>, <<"gt", "n_1_d.png">> } |->
        CASE p = <<"data", "k_big.png">>    -> [h |-> 353, w |-> 1217, mode |-> "RGB"]
          [] p = <<"gt", "k_big_d.png">>    -> [h |-> 353, w |-> 1217, mode |-> "I"]
          [] p = <<"data", "k_small.png">>  -> [h |-> 350, w |-> 1213, mode |-> "RGB"]
          [] p = <<"gt", "k_small_d.png">>  -> [h |-> 350, w |-> 1213, mode |-> "I"]
          [] p = <<"gt", "k_off_d.png">>    -> [h |-> 352, w |-> 1217, mode |-> "I"]
          [] p = <<"gt", "k_offw_d.png">>   -> [h |-> 353, w |-> 1216, mode |-> "I"]
          [] p = <<"data", "n_1.jpg">>      -> [h |-> 480, w |-> 640, mode |-> "RGB"]
          [] p = <<"gt", "n_1_d.png">>      -> [h |-> 480, w |-> 640, mode |-> "I"]]

\* whitespace items of a manifest line; every other item is a token
Whitespace == {" ", "\n"}

\* f.readlines(): a line is its tokens and the whitespace between them
KittiManifest ==
    << <<"k_big.png", " ", "k_big_d.png", " ", "721.5", "\n">>,
       <<"k_small.png", " ", "k_small_d.png", " ", "721.5", "\n">>,
       <<"k_big.png", " ", "k_off_d.png", " ", "721.5", "\n">>,
       <<"k_big.png", " ", "k_offw_d.png", " ", "721.5", "\n">>,
       <<"k_big.png", " ", "721.5", "\n">>,
       <<"k_big.png", " ", "k_big_d.png", "\n">>,
       <<"721.5", "\n">>,
       <<"\n">>,
       <<"k_gone.png", " ", "k_big_d.png", " ", "721.5", "\n">> >>

NyuManifest ==
    << <<"n_1.jpg", " ", "n_1_d.png", " ", "518.8", "\n">>,
       <<"n_1.jpg", " ", "518.8", "\n">> >>

\* float(token): the value in tenths, or failure
FloatTable == [t \in {"721.5", "518.8"} |-> IF t = "721.5" THEN 7215 ELSE 5188]
IsFloat(tok) == tok \in DOMAIN FloatTable
Float(tok) == FloatTable[tok]

\* str.split(): the maximal runs of non-whitespace
Split(line) == SelectSeq(line, LAMBDA t : t \notin Whitespace)

\* os.path.join(root, "./" + token)
PathJoin(root, tok) == <<root, tok>>

(***************************************************************************)
(* PIL and numpy operations used by __getitem__.                           *)
(***************************************************************************)
\* Image.open(path) of an existing file
Open(path) ==
    [rows |-> Range(0, Disk[path].h), cols |-> Range(0, Disk[path].w),
     chans |-> IF Disk[path].mode = "RGB" THEN <<3>> ELSE <<>>,
     layout |-> "HWC", src |-> path, rot |-> <<>>, vals |-> <<>>]

\* Image.crop((left, upper, right, lower)): the output is always
\* (right - left) x (lower - upper); what lies outside the image is zero
PilCrop(im, left, upper, right, lower) ==
    [im EXCEPT
       !.rows = Window(im.rows, upper, lower),
       !.cols = Window(im.cols, left, right)]

\* arr[r0:r1, c0:c1, :]
NpSlice(arr, r0, r1, c0, c1) ==
    [arr EXCEPT !.rows = PySlice(arr.rows, r0, r1),
                !.cols = PySlice(arr.cols, c0, c1)]

\* arr[:, -2::-1, :].copy(): the reversal starts one column early
FlipLRDropsColumn(arr) ==
    [arr EXCEPT !.cols = Reverse(PySlice(arr.cols, 0, Width(arr) - 1))]

\* arr[:, ::-1, :].copy()
FlipLR(arr) == [arr EXCEPT !.cols = Reverse(arr.cols)]

\* elementwise arithmetic on an array
Apply(arr, op, arg) == [arr EXCEPT !.vals = Append(arr.vals, [op |-> op, arg |-> arg])]

\* rotateImage: image.rotate(angle, resample=flag) keeps the size
rotateImage(image, angle, flag) ==
    [image EXCEPT !.rot = Append(image.rot,
        [angle |-> angle, resample |-> flag, size |-> <<Width(image), Height(image)>>])]

\* top_margin, left_margin of the kb crop
TopMargin(height) == height - KbHeight
LeftMargin(width) == IntHalf(width - KbWidth)

\* the kb crop of the train branch, on a PIL image; the margins come from
\* the image even when the depth map is cropped
TrainKbCrop(im, height, width) ==
    PilCrop(im, LeftMargin(width), TopMargin(height),
            LeftMargin(width) + KbWidth, TopMargin(height) + KbHeight)

\* the kb crop of the test branch, on an ndarray
TestKbCrop(image) ==
    NpSlice(image, TopMargin(Height(image)), TopMargin(Height(image)) + KbHeight,
            LeftMargin(Width(image)), LeftMargin(Width(image)) + KbWidth)

\* the nyu crop
NyuCrop(im) == PilCrop(im, NyuLeft, NyuTop, NyuRight, NyuBottom)

\* draws of random.random(), in tenths
Unit == {5, 9}

\* (random.random() - 0.5) * 2 * degree, in tenths of a degree
RandomAngle(u, degree) == (u - 5) * 2 * degree

\* random.uniform(a, b) = a + (b - a) * random.random(), a and b in thousandths
Uniform(a, b, u) == a + ((b - a) * u) \div 10

\* np.random.uniform(0.9, 1.1, size=3): the three draws of one call, in tenths
NpDraws == { <<0, 5, 9>> }

\* the draws of one augment_image call: gamma, brightness, colors
AugmentDraws == { <<5, 9, c>> : c \in NpDraws } \cup { <<9, 5, c>> : c \in NpDraws }

(***************************************************************************)
(* DataLoadPreprocess: random_crop, augment_image, train_preprocess.       *)
(***************************************************************************)
\* random_crop asserting on img alone
RandomCropAssertsImgOnly(img, depth, height, width) ==
    /\ Height(img) >= height
    /\ Width(img) >= width

\* the four assertions of random_crop
RandomCropAsserts(img, depth, height, width) ==
    /\ Height(img) >= height
    /\ Width(img) >= width
    /\ Height(img) = Height(depth)
    /\ Width(img) = Width(depth)

\* random_crop with `x:width` written for `x:x + width`
random_crop_short(img, depth, height, width, x, y) ==
    [img   |-> NpSlice(img, y, y + height, x, width),
     depth |-> NpSlice(depth, y, y + height, x, width)]

\* random_crop past its assertions, with the offsets x, y it drew
random_crop(img, depth, height, width, x, y) ==
    [img   |-> NpSlice(img, y, y + height, x, x + width),
     depth |-> NpSlice(depth, y, y + height, x, x + width)]

\* augment_image with its draws g (gamma), b (brightness), c (colors).
\* arg is the array that was passed in, as it is after the call; ret is the
\* array returned.  image ** gamma and image_aug * brightness make new
\* arrays; image_aug *= color_image works in place on image_aug.
augment_image(image, dataset, g, b, c) ==
    LET gamma      == Uniform(900, 1100, g)
        brightness == IF dataset = "nyu" THEN Uniform(750, 1250, b)
                                         ELSE Uniform(900, 1100, b)
        colors     == [i \in 1..3 |-> Uniform(900, 1100, c[i])]
        pow        == Apply(image, "pow", <<gamma>>)
        bright     == Apply(pow, "mul", <<brightness>>)
        colored    == Apply(bright, "mul_channels", colors)
    IN  [arg |-> image, ret |-> Apply(colored, "clip", <<0, 1>>)]

\* train_preprocess augmenting the depth map along with the image
train_preprocess_both(image, depth_gt, dataset, do_flip, do_augment, g, b, c) ==
    LET flipped == IF do_flip > 5 THEN FlipLR(image) ELSE image
        depth   == IF do_flip > 5 THEN FlipLR(depth_gt) ELSE depth_gt
    IN  [image    |-> IF do_augment > 5
                      THEN augment_image(flipped, dataset, g, b, c).ret ELSE flipped,
         depth_gt |-> IF do_augment > 5
                      THEN augment_image(depth, dataset, g, b, c).ret ELSE depth,
         augArg   |-> IF do_augment > 5 THEN <<flipped>> ELSE <<>>]

\* train_preprocess flipping the image alone
train_preprocess_image_only(image, depth_gt, dataset, do_flip, do_augment, g, b, c) ==
    LET flipped == IF do_flip > 5 THEN FlipLR(image) ELSE image
        aug     == augment_image(flipped, dataset, g, b, c)
    IN  [image    |-> IF do_augment > 5 THEN aug.ret ELSE flipped,
         depth_gt |-> depth_gt,
         augArg   |-> IF do_augment > 5 THEN <<aug.arg>> ELSE <<>>]

\* train_preprocess with its draws.  augArg is <<>> when augment_image did
\* not run, else the array passed to it as left by the call.
train_preprocess(image, depth_gt, dataset, do_flip, do_augment, g, b, c) ==
    LET flipped == IF do_flip > 5 THEN FlipLR(image) ELSE image
        depth   == IF do_flip > 5 THEN FlipLR(depth_gt) ELSE depth_gt
        aug     == augment_image(flipped, dataset, g, b, c)
    IN  [image    |-> IF do_augment > 5 THEN aug.ret ELSE flipped,
         depth_gt |-> depth,
         augArg   |-> IF do_augment > 5 THEN <<aug.arg>> ELSE <<>>]

(***************************************************************************)
(* ToTensor.                                                               *)
(***************************************************************************)
\* to_tensor of an ndarray: torch.from_numpy(pic.transpose((2, 0, 1)))
to_tensor(pic) == [pic EXCEPT !.layout = "CHW"]

\* transforms.Normalize(mean, std), in thousandths
normalize(image) ==
    Apply(image, "normalize", <<485, 456, 406, 229, 224, 225>>)

\* ToTensor.__call__
ToTensorCall(sample, is_test) ==
    IF ~is_test
    THEN [image |-> normalize(to_tensor(sample.image)),
          depth |-> to_tensor(sample.depth),
          focal |-> sample.focal]
    ELSE [image |-> normalize(to_tensor(sample.image)),
          focal |-> sample.focal]

\* tensor.shape of a CHW tensor
TensorShape(t) == t.chans \o <<Height(t), Width(t)>>

(***************************************************************************)
(* __getitem__, lines 78-106: decoding and the deterministic geometry of   *)
(* the train branch, up to the call of random_crop.                        *)
(***************************************************************************)
TrainDecode(a, image_path, depth_path, angles) ==
    LET image0 == Open(image_path)
        depth0 == Open(depth_path)
        height == Height(image0)
        width  == Width(image0)
        image1 == IF a.do_kb_crop THEN TrainKbCrop(image0, height, width) ELSE image0
        depth1 == IF a.do_kb_crop THEN TrainKbCrop(depth0, height, width) ELSE depth0
        image2 == IF a.dataset = "nyu" THEN NyuCrop(image1) ELSE image1
        depth2 == IF a.dataset = "nyu" THEN NyuCrop(depth1) ELSE depth1
        image3 == IF angles = <<>> THEN image2
                  ELSE rotateImage(image2, angles[1], "BILINEAR")
        depth3 == IF angles = <<>> THEN depth2
                  ELSE rotateImage(depth2, angles[1], "NEAREST")
        image4 == Apply(image3, "div", <<255>>)
        depth4 == [depth3 EXCEPT !.chans = Append(depth3.chans, 1)]
        depth5 == IF a.dataset = "nyu" THEN Apply(depth4, "div", <<1000>>)
                                       ELSE Apply(depth4, "div", <<256>>)
    IN  [img |-> image4, depth |-> depth5]

\* the test branch with the train branch's nyu crop copied into it
TestDecodeNyuCrop(a, image_path) ==
    LET image0 == Apply(Open(image_path), "div", <<255>>)
        image1 == IF a.do_kb_crop THEN TestKbCrop(image0) ELSE image0
    IN  IF a.dataset = "nyu"
        THEN NpSlice(image1, NyuTop, NyuBottom, NyuLeft, NyuRight) ELSE image1

\* __getitem__, lines 113-121: the test branch up to the sample
TestDecode(a, image_path) ==
    LET image0 == Apply(Open(image_path), "div", <<255>>)
    IN  IF a.do_kb_crop THEN TestKbCrop(image0) ELSE image0

(***************************************************************************)
(* State.                                                                  *)
(*   filenames, args, mode, transform : the fields of DataLoadPreprocess   *)
(*       (transform is ToTensor's is_test flag);                           *)
(*   rngPy, rngNp : the state of the process-global sources `random` and   *)
(*       `np.random`, as the number of draws made, modulo RngPeriod;       *)
(*   last : what the latest __getitem__ call did and returned.             *)
(***************************************************************************)
\* the manifest args.filenames_file names
ReadLines(filenames_file) ==
    IF filenames_file = "nyu_train.txt" THEN NyuManifest ELSE KittiManifest

\* the (input_height, input_width) configured with each dataset
InputSizes(dataset) ==
    IF dataset = "nyu" THEN { <<427, 565>>, <<426, 564>>, <<428, 566>> }
                       ELSE { <<352, 1216>>, <<353, 1216>>, <<352, 1217>> }

\* the values of args.degree
Degrees == {2}

Configurations ==
    { [mode |-> m, dataset |-> ds, do_kb_crop |-> kb, do_random_rotate |-> rr,
       degree |-> dg, input_height |-> sz[1], input_width |-> sz[2],
       data_path |-> "data", gt_path |-> "gt",
       filenames_file |-> IF ds = "nyu" THEN "nyu_train.txt" ELSE "kitti_train.txt"] :
         m \in {"train", "test"}, ds \in {"kitti", "nyu"}, kb \in BOOLEAN,
         rr \in BOOLEAN, dg \in Degrees,
         sz \in InputSizes("kitti") \cup InputSizes("nyu") }

NoAccess ==
    [idx |-> -1, status |-> "none", opens |-> <<>>, sample |-> <<>>,
     pyDraws |-> 0, npDraws |-> 0, ran |-> {}, cropIn |-> <<>>,
     offset |-> <<>>, augArg |-> <<>>]

\* BtsDataLoader.__init__ and DataLoadPreprocess.__init__
Init ==
    /\ args \in { a \in Configurations :
                     <<a.input_height, a.input_width>> \in InputSizes(a.dataset) }
    /\ filenames = ReadLines(args.filenames_file)
    /\ mode = args.mode
    /\ transform = (args.mode # "train")
    /\ rngPy = 0
    /\ rngNp = 0
    /\ last = NoAccess

\* __len__
DatasetLen == Len(filenames)

\* __getitem__ consuming the line it served (self.filenames.pop(0))
SelfPopsLine ==
    /\ filenames' = Tail(filenames)
    /\ UNCHANGED <<args, mode, transform>>

\* __getitem__ never assigns to a field of self
SelfUnchanged == UNCHANGED <<filenames, args, mode, transform>>

\* the draws one call makes advance the two global sources
Consume(py, np) ==
    /\ rngPy' = (rngPy + py) % RngPeriod
    /\ rngNp' = (rngNp + np) % RngPeriod

\* the call ends by raising exc; nothing is returned
Raise(idx, exc, opens, ran, py, cropIn) ==
    /\ last' = [NoAccess EXCEPT !.idx = idx, !.status = exc, !.opens = opens,
                                !.ran = ran, !.pyDraws = py, !.cropIn = cropIn]
    /\ Consume(py, 0)

\* the steps of lines 81-97 that run under configuration a
GeometrySteps(a) ==
    (IF a.do_kb_crop THEN {"kb_crop"} ELSE {})
      \cup (IF a.dataset = "nyu" THEN {"nyu_crop"} ELSE {})
      \cup (IF a.do_random_rotate THEN {"rotate"} ELSE {})

\* __getitem__, train branch (lines 75-110, 125-128)
TrainGetItem(idx, toks, focal) ==
    IF Len(toks) < 2
    THEN Raise(idx, "IndexError", <<>>, {}, 0, <<>>)
    ELSE
    LET image_path == PathJoin(args.data_path, toks[1])
        depth_path == PathJoin(args.gt_path, toks[2])
        nrot       == IF args.do_random_rotate THEN 1 ELSE 0
    IN
    IF image_path \notin DOMAIN Disk
    THEN Raise(idx, "FileNotFoundError", <<image_path>>, {}, 0, <<>>)
    ELSE IF depth_path \notin DOMAIN Disk
    THEN Raise(idx, "FileNotFoundError", <<image_path, depth_path>>, {}, 0, <<>>)
    ELSE
    \E angles \in IF args.do_random_rotate
                   THEN { <<RandomAngle(u, args.degree)>> : u \in Unit } ELSE { <<>> } :
     \E in \in { TrainDecode(args, image_path, depth_path, angles) } :
      LET h      == args.input_height
          w      == args.input_width
          opens  == <<image_path, depth_path>>
          steps  == GeometrySteps(args)
      IN
      IF ~RandomCropAsserts(in.img, in.depth, h, w)
      THEN Raise(idx, "AssertionError", opens, steps \cup {"random_crop"}, nrot, <<in>>)
      ELSE
      \E x \in 0..(Width(in.img) - w), y \in 0..(Height(in.img) - h),
         do_flip \in Unit, do_augment \in Unit :
       \E d \in IF do_augment > 5 THEN AugmentDraws ELSE { <<5, 5, <<5, 5, 5>> >> } :
        \E crop \in { random_crop(in.img, in.depth, h, w, x, y) } :
         \E pre \in { train_preprocess(crop.img, crop.depth, args.dataset,
                                       do_flip, do_augment, d[1], d[2], d[3]) } :
          LET raw  == [image |-> pre.image, depth |-> pre.depth_gt, focal |-> focal]
              py   == nrot + 4 + (IF do_augment > 5 THEN 2 ELSE 0)
              np   == IF do_augment > 5 THEN 1 ELSE 0
          IN
          /\ last' = [idx |-> idx, status |-> "ok", opens |-> opens,
                      sample |-> <<ToTensorCall(raw, transform)>>,
                      pyDraws |-> py, npDraws |-> np,
                      ran |-> steps \cup {"random_crop", "to_tensor"}
                                \cup (IF do_flip > 5 THEN {"flip"} ELSE {})
                                \cup (IF do_augment > 5 THEN {"augment"} ELSE {}),
                      cropIn |-> <<in>>, offset |-> <<x, y>>,
                      augArg |-> pre.augArg]
          /\ Consume(py, np)

\* __getitem__, test branch (lines 113-128)
TestGetItem(idx, toks, focal) ==
    LET image_path == PathJoin(args.data_path, toks[1])
    IN
    IF image_path \notin DOMAIN Disk
    THEN Raise(idx, "FileNotFoundError", <<image_path>>, {}, 0, <<>>)
    ELSE
    LET raw == [image |-> TestDecode(args, image_path), focal |-> focal]
    IN
    /\ last' = [NoAccess EXCEPT
                  !.idx = idx, !.status = "ok", !.opens = <<image_path>>,
                  !.sample = <<ToTensorCall(raw, transform)>>,
                  !.ran = (IF args.do_kb_crop THEN {"kb_crop"} ELSE {})
                            \cup {"to_tensor"}]
    /\ Consume(0, 0)

\* __getitem__(idx) for an index of the manifest
GetItem(idx) ==
    /\ LET toks == Split(filenames[idx + 1])
       IN  IF Len(toks) = 0
           THEN Raise(idx, "IndexError", <<>>, {}, 0, <<>>)
           ELSE IF ~IsFloat(toks[Len(toks)])
           THEN Raise(idx, "ValueError", <<>>, {}, 0, <<>>)
           ELSE IF mode = "train"
           THEN TrainGetItem(idx, toks, Float(toks[Len(toks)]))
           ELSE TestGetItem(idx, toks, Float(toks[Len(toks)]))
    /\ SelfUnchanged

\* code outside the loader draws from the process-global source `random`
OtherPyDraw ==
    /\ rngPy' = (rngPy + 1) % RngPeriod
    /\ UNCHANGED <<filenames, args, mode, transform, rngNp, last>>

\* code outside the loader draws from the process-global source `np.random`
OtherNpDraw ==
    /\ rngNp' = (rngNp + 1) % RngPeriod
    /\ UNCHANGED <<filenames, args, mode, transform, rngPy, last>>

Next ==
    \/ \E idx \in 0..(DatasetLen - 1) : GetItem(idx)
    \/ OtherPyDraw
    \/ OtherNpDraw

Spec == Init /\ [][Next]_vars

(***************************************************************************)
(* Properties.                                                             *)
(***************************************************************************)
\* the arrays the latest call gave to random_crop
In == last.cropIn[1]
\* the sample the latest call returned
Sample == last.sample[1]
\* what random_crop returned to the latest call
Cropped ==
    random_crop(In.img, In.depth, args.input_height, args.input_width,
                last.offset[1], last.offset[2])
TrainOk == mode = "train" /\ last.status = "ok"
TestOk == mode = "test" /\ last.status = "ok"
\* the image file the latest call decoded
SourceImage == Open(last.opens[1])

\* b shows the pixels of a with nothing changed but the order of the
\* columns: column c of b is column c of a, or column W - 1 - c if mirrored
SameUpToMirror(a, b, mirrored) ==
    /\ b.rows = a.rows /\ b.chans = a.chans /\ b.src = a.src
    /\ b.rot = a.rot /\ b.vals = a.vals
    /\ Width(b) = Width(a)
    /\ \A ac \in {a.cols}, bc \in {b.cols} :
         \A c \in 0..(AxisLen(ac) - 1) :
           At(bc, c) = At(ac, IF mirrored THEN AxisLen(ac) - 1 - c ELSE c)

\* C1: in train mode, whenever the image and depth given to random_crop
\* are at least input_height x input_width, the arrays random_crop returns
\* and the image and depth of the emitted sample are exactly
\* input_height x input_width (and random_crop does return when the two
\* have the same size).
C1_RandomCropSize ==
    (/\ mode = "train" /\ last.cropIn # <<>>
     /\ Height(In.img) >= args.input_height /\ Width(In.img) >= args.input_width
     /\ Height(In.depth) >= args.input_height /\ Width(In.depth) >= args.input_width)
    => /\ (Height(In.img) = Height(In.depth) /\ Width(In.img) = Width(In.depth))
            => last.status = "ok"
       /\ last.status = "ok" =>
            /\ Shape(Cropped.img) = <<args.input_height, args.input_width, 3>>
            /\ Shape(Cropped.depth) = <<args.input_height, args.input_width, 1>>
            /\ TensorShape(Sample.image) = <<3, args.input_height, args.input_width>>
            /\ TensorShape(Sample.depth) = <<1, args.input_height, args.input_width>>

\* a crop out of a strictly larger array, at a non-zero offset
C1_Witness ==
    /\ TrainOk
    /\ Height(In.img) > args.input_height /\ Width(In.img) > args.input_width
    /\ last.offset = <<1, 1>>

\* C2 (as claimed): in test mode every returned image has 3 channels and is
\* 352 x 1216 when do_kb_crop is set, the source's native size otherwise.
C2_TestShape ==
    TestOk =>
        TensorShape(Sample.image) =
            IF args.do_kb_crop THEN <<3, KbHeight, KbWidth>>
            ELSE <<3, Height(SourceImage), Width(SourceImage)>>

\* C2 restricted to sources of at least 352 rows and 1216 columns
C2_TestShapeLargeSource ==
    (TestOk /\ Height(SourceImage) >= KbHeight /\ Width(SourceImage) >= KbWidth) =>
        TensorShape(Sample.image) =
            IF args.do_kb_crop THEN <<3, KbHeight, KbWidth>>
            ELSE <<3, Height(SourceImage), Width(SourceImage)>>

\* C3: random_crop raises AssertionError, and no sample is emitted, exactly
\* when the requested height or width exceeds the image array's or the
\* image and depth arrays differ in height or width; otherwise it returns.
C3_RandomCropAssertion ==
    (mode = "train" /\ last.cropIn # <<>>) =>
        LET bad == \/ args.input_height > Height(In.img)
                   \/ args.input_width > Width(In.img)
                   \/ Height(In.img) # Height(In.depth)
                   \/ Width(In.img) # Width(In.depth)
        IN  /\ bad => last.status = "AssertionError" /\ last.sample = <<>>
            /\ ~bad => last.status = "ok" /\ last.sample # <<>>

\* the assertion on the widths fails although the crop would fit
C3_Witness ==
    /\ mode = "train" /\ last.status = "AssertionError"
    /\ args.input_height <= Height(In.img) /\ args.input_width <= Width(In.img)
    /\ Height(In.img) = Height(In.depth) /\ Width(In.img) # Width(In.depth)

\* the assertion on the crop size fails for arrays of equal size
C3_WitnessTooLarge ==
    /\ mode = "train" /\ last.status = "AssertionError"
    /\ Shape(In.img)[1] = Shape(In.depth)[1] /\ Shape(In.img)[2] = Shape(In.depth)[2]
    /\ args.input_width > Width(In.img)

\* C4 (as claimed): a line with fewer tokens than the mode needs (3 in
\* train mode, 2 in test mode) makes the call fail with a parse failure
\* before any file is opened.
C4_ShortLineParseFailure ==
    (last.status # "none"
       /\ Len(Split(filenames[last.idx + 1])) < (IF mode = "train" THEN 3 ELSE 2))
    => /\ last.status \in {"IndexError", "ValueError"}
       /\ last.opens = <<>>

\* C5: the depth of the sample is the depth random_crop returned, mirrored
\* exactly when the flip ran and otherwise untouched, whether or not
\* augment_image ran; and the array passed to augment_image is, after the
\* call, still the (possibly mirrored) image random_crop returned.
C5_DepthUnaltered ==
    TrainOk =>
      \A crop \in {Cropped} :
        /\ Sample.depth.layout = "CHW"
        /\ SameUpToMirror(crop.depth, Sample.depth, "flip" \in last.ran)
        /\ "augment" \in last.ran =>
              /\ last.augArg # <<>>
              /\ last.augArg[1].layout = "HWC"
              /\ SameUpToMirror(crop.img, last.augArg[1], "flip" \in last.ran)

\* flip and augmentation both ran on a crop that is not its own mirror
C5_Witness ==
    /\ TrainOk /\ {"flip", "augment"} \subseteq last.ran
    /\ Sample.depth.cols # Cropped.depth.cols
    /\ Sample.image.vals # Cropped.img.vals

\* C6: random_crop uses one offset (x, y) with 0 <= x <= W - width and
\* 0 <= y <= H - height for both arrays and train_preprocess mirrors both
\* or neither: row r and column c of the sample's image and of its depth
\* show row y + r and column x + c (x + width - 1 - c when mirrored) of the
\* image and of the depth given to random_crop.
C6_Alignment ==
    TrainOk =>
        LET x == last.offset[1]
            y == last.offset[2]
            h == args.input_height
            w == args.input_width
        IN  /\ x \in 0..(Width(In.img) - w)
            /\ y \in 0..(Height(In.img) - h)
            /\ Height(Sample.image) = h /\ Height(Sample.depth) = h
            /\ Width(Sample.image) = w /\ Width(Sample.depth) = w
            /\ \A out \in {Sample}, in \in {In} :
                 /\ \A r \in 0..(h - 1) :
                      /\ At(out.image.rows, r) = At(in.img.rows, y + r)
                      /\ At(out.depth.rows, r) = At(in.depth.rows, y + r)
                 /\ \E mirrored \in BOOLEAN :
                      \A c \in 0..(w - 1) :
                        \A k \in {x + (IF mirrored THEN w - 1 - c ELSE c)} :
                          /\ At(out.image.cols, c) = At(in.img.cols, k)
                          /\ At(out.depth.cols, c) = At(in.depth.cols, k)

\* a mirrored crop taken at a non-zero offset
C6_Witness ==
    /\ TrainOk /\ "flip" \in last.ran
    /\ last.offset[1] > 0 /\ last.offset[2] > 0

\* C7: flipping twice gives back the array, element for element and with
\* the same shape, for the arrays given to random_crop and the arrays it
\* returned (the ones train_preprocess flips).
C7_FlipTwice ==
    (mode = "train" /\ last.cropIn # <<>>) =>
        \A a \in {In.img, In.depth}
                   \cup (IF last.status = "ok" THEN {Cropped.img, Cropped.depth} ELSE {}) :
          \A twice \in {FlipLR(FlipLR(a))} :
            /\ Shape(twice) = Shape(a)
            /\ \A c \in 0..(Width(a) - 1) : At(twice.cols, c) = At(a.cols, c)
            /\ twice = a

\* the flip ran, and one flip does change the array
C7_Witness ==
    /\ TrainOk /\ "flip" \in last.ran
    /\ FlipLR(Cropped.img) # Cropped.img
    /\ FlipLR(Cropped.depth) # Cropped.depth

\* C8: no step changes the manifest, the configuration, the mode or the
\* transform, and __len__ stays the number of lines read at construction;
\* a call touches nothing but the two random sources and its own result.
C8_Stateless ==
    /\ [](/\ filenames = ReadLines(args.filenames_file)
          /\ DatasetLen = Len(ReadLines(args.filenames_file))
          /\ mode = args.mode
          /\ transform = (args.mode # "train"))
    /\ [][/\ filenames' = filenames /\ args' = args
          /\ mode' = mode /\ transform' = transform]_vars

\* a train call that drew from both random sources has returned
C8_Witness ==
    /\ TrainOk /\ last.pyDraws > 0 /\ last.npDraws > 0
    /\ rngPy # 0 /\ rngNp # 0

\* C9: a test-mode call draws nothing and leaves both random sources as
\* they are; its sample has image and focal only; the image is the decoded
\* file divided by 255 and normalized, unrotated, unmirrored and unpadded,
\* and the whole file when do_kb_crop is off, whatever dataset,
\* do_random_rotate, input_height and input_width are; and a repeated
\* access of an index returns the sample the previous access returned.
C9_TestDeterministic ==
    /\ [](mode = "test" =>
            /\ last.pyDraws = 0 /\ last.npDraws = 0
            /\ last.cropIn = <<>> /\ last.offset = <<>> /\ last.augArg = <<>>
            /\ last.status = "ok" =>
                 /\ DOMAIN Sample = {"image", "focal"}
                 /\ Sample.image.rot = <<>>
                 /\ Sample.image.vals =
                      << [op |-> "div", arg |-> <<255>>],
                         [op |-> "normalize",
                          arg |-> <<485, 456, 406, 229, 224, 225>>] >>
                 /\ \A r \in 1..(Height(Sample.image) - 1) :
                      At(Sample.image.rows, r) = At(Sample.image.rows, r - 1) + 1
                 /\ \A c \in 1..(Width(Sample.image) - 1) :
                      At(Sample.image.cols, c) = At(Sample.image.cols, c - 1) + 1
                 /\ ~args.do_kb_crop =>
                      /\ Sample.image.rows = SourceImage.rows
                      /\ Sample.image.cols = SourceImage.cols)
    /\ [][\A idx \in 0..(DatasetLen - 1) :
            (mode = "test" /\ GetItem(idx)) => (rngPy' = rngPy /\ rngNp' = rngNp)]_vars
    /\ [][(mode = "test" /\ last.status = "ok" /\ last'.status = "ok"
             /\ last'.idx = last.idx) => last'.sample = last.sample]_vars

\* a test-mode sample returned with the random source moved on and every
\* train-only option set
C9_Witness ==
    /\ TestOk /\ rngPy # 0
    /\ args.dataset = "nyu" /\ args.do_random_rotate /\ args.do_kb_crop

\* C10 (as claimed): on every source image a call with do_kb_crop decodes,
\* the train branch's kb crop and the test branch's kb crop give an output
\* of the same size showing the same source pixels.
C10_KbCropsAgree ==
    (args.do_kb_crop /\ last.opens # <<>> /\ last.opens[1] \in DOMAIN Disk) =>
        /\ TrainKbCrop(SourceImage, Height(SourceImage), Width(SourceImage)).rows
             = TestKbCrop(SourceImage).rows
        /\ TrainKbCrop(SourceImage, Height(SourceImage), Width(SourceImage)).cols
             = TestKbCrop(SourceImage).cols

\* C10 restricted to sources of at least 352 rows and 1216 columns
C10_KbCropsAgreeLargeSource ==
    (/\ args.do_kb_crop /\ last.opens # <<>> /\ last.opens[1] \in DOMAIN Disk
     /\ Height(SourceImage) >= KbHeight /\ Width(SourceImage) >= KbWidth) =>
        /\ TrainKbCrop(SourceImage, Height(SourceImage), Width(SourceImage)).rows
             = TestKbCrop(SourceImage).rows
        /\ TrainKbCrop(SourceImage, Height(SourceImage), Width(SourceImage)).cols
             = TestKbCrop(SourceImage).cols

====
